---- MODULE Spec2Model ----
(***************************************************************************)
(* The web-of-trust graph collector and its analytics pass                 *)
(* (useWebOfTrust, assignClusters, calculateDegreesOfSeparation), and the  *)
(* social graph collector (useSocialGraph, at the end of the module).      *)
(*                                                                         *)
(* One run of the query function is modelled.  The run suspends only at    *)
(* the relay queries; the states of the model are the states of the run at *)
(* the head of the collection loop, at a pending query, and at its end.    *)
(*                                                                         *)
(* Importance values (val) are kept multiplied by ValScale, because the    *)
(* analytics pass adds totalDegree / 5 and totalDegree / 2 to them.        *)
(***************************************************************************)
EXTENDS Naturals, Integers, Sequences, FiniteSets, Bags, TLC

(***************************************************************************)
(* Bounds of the model.                                                    *)
(***************************************************************************)
MaxResp == 2        \* length of a partial / repeating relay answer
MaxDepth == 2       \* largest depth option tried
SmallLimit == 2     \* the limit option tried
StarLeaves == 12    \* identities around the hub of the star world
StarDepth == 2      \* depth option of the star run
ChainDepth == 3     \* depth option of the chain run

(***************************************************************************)
(* Program constants.                                                      *)
(***************************************************************************)
BatchSize == 50     \* toProcess.splice(0, 50)
RootVal == 10       \* val of the start node
SeedVal == 5        \* val of a global-mode seed node
MinVal == 3         \* val of a newly followed node
ValCap == 20        \* Math.min(node.val + 1, 20)
HubMinDegree == 10  \* totalDegree >= 10
ClusterMaxDepth == 2
ValScale == 10      \* val is stored as val * ValScale (exact for /2 and /5)

\* JavaScript's undefined: an option that was not passed, the value of a
\* tag that has none.  A template literal renders it as this text, and no
\* pubkey of the model equals it.
Undef == "undefined"
\* An optional numeric field that has not been set.
Absent == 0 - 1

Min(x, y) == IF x <= y THEN x ELSE y
Max(x, y) == IF x >= y THEN x ELSE y

\* All sequences over S of length at most n.
BSeq(S, n) == UNION {[1..k -> S] : k \in 0..n}

SeqToSet(s) == {s[i] : i \in DOMAIN s}

\* The length of the runs in which a loop over n elements is evaluated: the
\* least k with k * k > n.  A forEach is computed run after run, which keeps
\* the evaluation of a loop over many elements shallow.
Stride(n) == CHOOSE k \in 1..(n + 1) : k * k > n /\ (k - 1) * (k - 1) <= n

(***************************************************************************)
(* The relay: the kind 3 events it holds.  An event is                     *)
(* [pubkey, created_at, tags]; a tag is a sequence of strings.             *)
(***************************************************************************)
Ids == {"a", "b", "c"}

PTag(id) == <<"p", id>>
Tags == {PTag(id) : id \in Ids} \cup {<<"p">>, <<"e", "a">>}

\* The tag lists tried: no tag, any one tag, any two "p" tags of identities.
TagLists ==
  {<<>>} \cup {<<t>> : t \in Tags}
         \cup {<<PTag(x), PTag(y)>> : x \in Ids, y \in Ids}

Event(pk, ts, tags) == [pubkey |-> pk, created_at |-> ts, tags |-> tags]

\* Worlds in which every identity has published at most one contact list.
SmallWorlds ==
  UNION {{{Event(id, 1, f[id]) : id \in A} : f \in [A -> TagLists]} : A \in SUBSET Ids}

\* event.tags.filter(([tag]) => tag === 'p').map(([_, pubkey]) => pubkey)
IsPTag(tag) == Len(tag) >= 1 /\ tag[1] = "p"
TagValue(tag) == IF Len(tag) >= 2 THEN tag[2] ELSE Undef
TagValues(tags) == [i \in DOMAIN tags |-> TagValue(tags[i])]

FollowedPubkeys(event) == TagValues(SelectSeq(event.tags, IsPTag))

\* The follow relation of a world: whom the events of an author list.
Follows(world, id) ==
  UNION {SeqToSet(FollowedPubkeys(e)) : e \in {f \in world : f.pubkey = id}}

\* The identities at directed follow-distance at most k from those of S.
RECURSIVE Within(_, _, _)
Within(world, S, k) ==
  IF k = 0
    THEN S
    ELSE Within(world, S \cup UNION {Follows(world, id) : id \in S}, k - 1)

\* A run rooted at "a" with depth d queries only authors fewer than d hops
\* from "a"; a global run may be answered with any event.  The worlds tried
\* hold no event that no query of the run could return.
RootedWorlds(d) ==
  IF d = 0
    THEN {{}}
    ELSE {w \in SmallWorlds : \A e \in w : e.pubkey \in Within(w, {"a"}, d - 1)}
GlobalWorlds ==
  {w \in SmallWorlds : \A e \in w : e.pubkey \in {"a", "b"}}

(***************************************************************************)
(* The state of one run of the query function.                             *)
(***************************************************************************)
VARIABLES
  relay,          \* the events the relay holds
  startPubkey,    \* option: the start identity, Undef for global mode
  depth,          \* option
  limit,          \* option
  referenceUser,  \* option: Undef when not passed
  nodesMap,       \* Map<string, GraphNode>, in insertion order
  linksMap,       \* Map<string, GraphLink>, in insertion order, with its keys
  processed,      \* Set<string>
  toProcess,      \* Array<{pubkey, level}>
  batch,          \* the batch of the pending query
  currentLevel,   \* the level of the pending query
  pc,             \* "seed", "loop", "fetching", "done", "failed"
  graphData,      \* <<the returned GraphData>>, <<>> until the run returns
  fetched,        \* history: the events the queries of the run have returned
  pushed,         \* history, kept by FetchReturnPushes: the pubkeys pushed
  other,          \* the options and locals of a second, suspended, call
  sg              \* the options and locals of a call of useSocialGraph

vars == <<relay, startPubkey, depth, limit, referenceUser, nodesMap, linksMap,
          processed, toProcess, batch, currentLevel, pc, graphData, fetched,
          pushed, other, sg>>

options == <<relay, startPubkey, depth, limit, referenceUser>>

NewNode(id, v) ==
  [id |-> id, val |-> v * ValScale, inDegree |-> 0, outDegree |-> 0,
   isHub |-> FALSE, cluster |-> Absent, degreesFromRoot |-> Absent]

NodeIds(nodes) == {nodes[i].id : i \in DOMAIN nodes}
HasNode(nodes, id) == id \in NodeIds(nodes)
NodeIndex(nodes, id) == CHOOSE i \in DOMAIN nodes : nodes[i].id = id

\* The key of a link in linksMap: `${source}->${target}`.
LinkId(source, target) == source \o "->" \o target
HasLink(links, key) == \E i \in DOMAIN links : links[i].key = key
NewLink(source, target) ==
  [key |-> LinkId(source, target), source |-> source, target |-> target,
   isBidirectional |-> FALSE]

(***************************************************************************)
(* The collection loop.  The accumulators of the run are passed as one     *)
(* record [nodes, links, queue, processed].                                *)
(***************************************************************************)

\* Fault variant of AddLink: the link is stored without looking it up.
AddLinkUnchecked(links, source, target) ==
  Append(links, NewLink(source, target))

\* if (!linksMap.has(linkId)) linksMap.set(linkId, {...})
AddLink(links, source, target) ==
  IF HasLink(links, LinkId(source, target))
    THEN links
    ELSE Append(links, NewLink(source, target))

\* node.val = Math.min(node.val + 1, 20)
BumpVal(v) == Min(v + 1 * ValScale, ValCap * ValScale)

\* if (currentLevel + 1 < depth && !processed.has(followedPubkey))
ShouldEnqueue(level, d, proc, id) == level + 1 < d /\ id \notin proc

\* Fault variant of ApplyFollow: the node of a followed identity is created
\* only when the identity is queued.
ApplyFollowNodeWhenQueued(st, author, followed, level, d) ==
  LET links1 == AddLink(st.links, author, followed)
  IN  IF ~HasNode(st.nodes, followed)
        THEN IF ShouldEnqueue(level, d, st.processed, followed)
               THEN [st EXCEPT
                       !.links = links1,
                       !.nodes = Append(st.nodes, NewNode(followed, MinVal)),
                       !.queue = Append(st.queue,
                                        [pubkey |-> followed, level |-> level + 1])]
               ELSE [st EXCEPT !.links = links1]
        ELSE [st EXCEPT
                !.links = links1,
                !.nodes[NodeIndex(st.nodes, followed)].val = BumpVal(@)]

\* Fault variant of ApplyFollow: a followed identity that has a node
\* already is queued as well.
ApplyFollowRequeue(st, author, followed, level, d) ==
  LET links1 == AddLink(st.links, author, followed)
      queue1 == IF ShouldEnqueue(level, d, st.processed, followed)
                  THEN Append(st.queue, [pubkey |-> followed, level |-> level + 1])
                  ELSE st.queue
  IN  IF ~HasNode(st.nodes, followed)
        THEN [st EXCEPT
                !.links = links1,
                !.nodes = Append(st.nodes, NewNode(followed, MinVal)),
                !.queue = queue1]
        ELSE [st EXCEPT
                !.links = links1,
                !.nodes[NodeIndex(st.nodes, followed)].val = BumpVal(@),
                !.queue = queue1]

\* The body of `for (const followedPubkey of followedPubkeys)`.
ApplyFollow(st, author, followed, level, d) ==
  LET links1 == AddLink(st.links, author, followed)
  IN  IF ~HasNode(st.nodes, followed)
        THEN [st EXCEPT
                !.links = links1,
                !.nodes = Append(st.nodes, NewNode(followed, MinVal)),
                !.queue = IF ShouldEnqueue(level, d, st.processed, followed)
                            THEN Append(st.queue,
                                        [pubkey |-> followed, level |-> level + 1])
                            ELSE st.queue]
        ELSE [st EXCEPT
                !.links = links1,
                !.nodes[NodeIndex(st.nodes, followed)].val = BumpVal(@)]

\* for (const followedPubkey of followedPubkeys): st.k of them are done.
RECURSIVE ApplyFollows(_, _, _, _, _)
ApplyFollows(st, author, followed, level, d) ==
  IF st.k >= Len(followed)
    THEN st
    ELSE ApplyFollows([ApplyFollow(st, author, followed[st.k + 1], level, d)
                         EXCEPT !.k = @ + 1],
                      author, followed, level, d)

\* The body of `for (const event of events)`.
ApplyEvent(st, event, level, d) ==
  ApplyFollows([st EXCEPT !.processed = @ \cup {event.pubkey}, !.k = 0],
               event.pubkey, FollowedPubkeys(event), level, d)

\* for (const event of events): st.e of them are done.
RECURSIVE ApplyEvents(_, _, _, _)
ApplyEvents(st, events, level, d) ==
  IF st.e >= Len(events)
    THEN st
    ELSE ApplyEvents([ApplyEvent(st, events[st.e + 1], level, d) EXCEPT !.e = @ + 1],
                     events, level, d)

\* recentEvents.forEach(...): every author becomes a level 0 entry and node.
\* Map.set on a key that is present keeps its place and replaces its value.
SeedAuthor(st, pk) ==
  IF pk \in st.processed
    THEN st
    ELSE [st EXCEPT
            !.queue = Append(@, [pubkey |-> pk, level |-> 0]),
            !.nodes = IF HasNode(@, pk)
                        THEN [@ EXCEPT ![NodeIndex(@, pk)] = NewNode(pk, SeedVal)]
                        ELSE Append(@, NewNode(pk, SeedVal))]

RECURSIVE SeedAuthors(_, _)
SeedAuthors(st, events) ==
  IF st.e >= Len(events)
    THEN st
    ELSE SeedAuthors([SeedAuthor(st, events[st.e + 1].pubkey) EXCEPT !.e = @ + 1],
                     events)

(***************************************************************************)
(* The relay's answers.  A query answers with events it holds that match   *)
(* the filter: any short sequence of them (an author missing, an event     *)
(* repeated, any order), or every requested author's event once.           *)
(***************************************************************************)
Pubkeys(entries) == [i \in DOMAIN entries |-> entries[i].pubkey]

\* The pubkeys pushed while the queue grew from `before` to `after`: the
\* loop bodies only push onto toProcess.
Pushes(before, after) == Pubkeys(SubSeq(after, Len(before) + 1, Len(after)))

Matching(authors) == {e \in relay : e.pubkey \in authors}

\* The newest event of one author.
Latest(pk) ==
  CHOOSE e \in Matching({pk}) : \A f \in Matching({pk}) : f.created_at <= e.created_at

\* One event, the newest, of every requested author that has published.
LatestOfEach(pubkeys) ==
  LET published == SelectSeq(pubkeys, LAMBDA pk : Matching({pk}) # {})
  IN  [i \in DOMAIN published |-> Latest(published[i])]

Responses(pubkeys) ==
  BSeq(Matching(SeqToSet(pubkeys)), MaxResp) \cup {LatestOfEach(pubkeys)}

(***************************************************************************)
(* The analytics pass.                                                     *)
(***************************************************************************)

\* links.forEach(link => { node.outDegree++ ... targetNode.inDegree++ }):
\* every link adds one to the outDegree of the node of its source and one to
\* the inDegree of the node of its target, where the nodes exist.
Degree(links, id, end) == Cardinality({i \in DOMAIN links : links[i][end] = id})

\* Fault variant of CountDegrees: the link of an identity to itself is
\* passed over when the inDegrees are counted.
CountDegreesApart(nodes, links) ==
  [n \in DOMAIN nodes |->
     [nodes[n] EXCEPT
        !.outDegree = @ + Degree(links, nodes[n].id, "source"),
        !.inDegree = @ + Cardinality({i \in DOMAIN links :
                                        /\ links[i].target = nodes[n].id
                                        /\ links[i].source # nodes[n].id})]]

CountDegrees(nodes, links) ==
  [n \in DOMAIN nodes |->
     [nodes[n] EXCEPT !.outDegree = @ + Degree(links, nodes[n].id, "source"),
                      !.inDegree = @ + Degree(links, nodes[n].id, "target")]]

LinkIndex(links, key) == CHOOSE i \in DOMAIN links : links[i].key = key

\* Fault variant of MarkLink: the key looked up is the link's own.
MarkLinkOwnKey(links, i) ==
  LET reverseLinkId == LinkId(links[i].source, links[i].target)
  IN  IF HasLink(links, reverseLinkId)
        THEN [links EXCEPT ![i].isBidirectional = TRUE,
                           ![LinkIndex(links, reverseLinkId)].isBidirectional = TRUE]
        ELSE links

\* Fault variant of MarkLink: a link is not taken for its own reverse.
MarkLinkApart(links, i) ==
  LET reverseLinkId == LinkId(links[i].target, links[i].source)
  IN  IF HasLink(links, reverseLinkId) /\ links[i].source # links[i].target
        THEN [links EXCEPT ![i].isBidirectional = TRUE,
                           ![LinkIndex(links, reverseLinkId)].isBidirectional = TRUE]
        ELSE links

\* One step of links.forEach: the link and its reverse are marked when
\* linksMap holds the key `${link.target}->${link.source}`.
MarkLink(links, i) ==
  LET reverseLinkId == LinkId(links[i].target, links[i].source)
  IN  IF HasLink(links, reverseLinkId)
        THEN [links EXCEPT ![i].isBidirectional = TRUE,
                           ![LinkIndex(links, reverseLinkId)].isBidirectional = TRUE]
        ELSE links

\* The steps i..stop of links.forEach(link => { ... }).
RECURSIVE MarkUpTo(_, _, _)
MarkUpTo(links, i, stop) ==
  IF i > Min(stop, Len(links))
    THEN links
    ELSE MarkUpTo(MarkLink(links, i), i + 1, stop)

\* links.forEach(link => { ... }) from the i-th link on.
RECURSIVE MarkBidirectional(_, _)
MarkBidirectional(links, i) ==
  IF i > Len(links)
    THEN links
    ELSE MarkBidirectional(MarkUpTo(links, i, i + Stride(Len(links)) - 1),
                           i + Stride(Len(links)))

\* nodes.reduce((sum, n) => sum + n.inDegree + n.outDegree, 0) over the
\* first n nodes: the size of the bag that holds the i-th node as many times
\* as its total degree.
SumDegrees(nodes, n) ==
  BagCardinality([i \in {j \in 1..n : nodes[j].inDegree + nodes[j].outDegree > 0}
                    |-> nodes[i].inDegree + nodes[i].outDegree])

\* Fault variant of IsHub: the least degree of a hub is not required.
IsHubAboveMean(totalDegree, sum, n) ==
  totalDegree * n >= 2 * sum

\* Fault variant of IsHub: the degree is not compared with the mean.
IsHubByDegree(totalDegree, sum, n) ==
  totalDegree >= HubMinDegree

\* totalDegree >= hubThreshold && totalDegree >= 10, where
\* hubThreshold = (sum of the total degrees / nodes.length) * 2.
IsHub(totalDegree, sum, n) ==
  totalDegree * n >= 2 * sum /\ totalDegree >= HubMinDegree

\* Math.max(node.val, 15 + Math.min(totalDegree / 5, 15)) for a hub,
\* Math.max(node.val, 3 + Math.min(totalDegree / 2, 7)) otherwise.
SizedVal(v, isHub, totalDegree) ==
  IF isHub
    THEN Max(v, 15 * ValScale + Min((totalDegree * ValScale) \div 5, 15 * ValScale))
    ELSE Max(v, 3 * ValScale + Min((totalDegree * ValScale) \div 2, 7 * ValScale))

\* The body of nodes.forEach(node => { node.isHub = ...; node.val = ... }).
SizeNode(node, sum, n) ==
  LET totalDegree == node.inDegree + node.outDegree
      hub == IsHub(totalDegree, sum, n)
  IN  [node EXCEPT !.isHub = hub, !.val = SizedVal(@, hub, totalDegree)]

SizeNodes(nodes, sum, n) == [i \in DOMAIN nodes |-> SizeNode(nodes[i], sum, n)]

DetectHubs(nodes) == SizeNodes(nodes, SumDegrees(nodes, Len(nodes)), Len(nodes))

\* The adjacency Map: a Set per node id, kept in insertion order.
\* adjacency.get(id)?.add(x)
AdjAdd(adj, id, x) ==
  IF id \in DOMAIN adj /\ x \notin SeqToSet(adj[id])
    THEN [adj EXCEPT ![id] = Append(@, x)]
    ELSE adj

\* links.forEach(link => { ... }) up to the link stop: as = [adj, n], n
\* links are done.
RECURSIVE AddAdjacencyUpTo(_, _, _)
AddAdjacencyUpTo(as, links, stop) ==
  IF as.n >= Min(stop, Len(links))
    THEN as
    ELSE LET link == links[as.n + 1]
         IN  AddAdjacencyUpTo([adj |-> AdjAdd(AdjAdd(as.adj, link.source, link.target),
                                              link.target, link.source),
                               n |-> as.n + 1],
                              links, stop)

\* links.forEach(link => { ... })
RECURSIVE AddAdjacency(_, _)
AddAdjacency(as, links) ==
  IF as.n >= Len(links)
    THEN as
    ELSE AddAdjacency(AddAdjacencyUpTo(as, links, as.n + Stride(Len(links))), links)

\* Fault variant of Adjacency: links are followed from source to target only.
RECURSIVE AddDirected(_, _)
AddDirected(as, links) ==
  IF as.n >= Len(links)
    THEN as
    ELSE LET link == links[as.n + 1]
         IN  AddDirected([adj |-> AdjAdd(as.adj, link.source, link.target),
                          n |-> as.n + 1],
                         links)

NoAdjacency(nodes) == [id \in NodeIds(nodes) |-> <<>>]

AdjacencyDirected(nodes, links) ==
  AddDirected([adj |-> NoAdjacency(nodes), n |-> 0], links).adj

Adjacency(nodes, links) ==
  AddAdjacency([adj |-> NoAdjacency(nodes), n |-> 0], links).adj

\* adjacency.get(id) || new Set()
Neighbors(adj, id) == IF id \in DOMAIN adj THEN adj[id] ELSE <<>>

(***************************************************************************)
(* assignClusters.  The pass is computed as the sequence of its writes to  *)
(* node.cluster, [id, cluster], in the order the code makes them.          *)
(* cs = [visited, writes, queue, clusterId, depth, i] holds the variables  *)
(* of the function: depth and i are the counters of its two inner loops.   *)
(***************************************************************************)

\* Fault variant of ShouldLabel: visited is not consulted.
ShouldLabelVisited(visited, nodeIds, neighborId) ==
  neighborId \in nodeIds

\* if (neighborNode && !visited.has(neighborId))
ShouldLabel(visited, nodeIds, neighborId) ==
  neighborId \in nodeIds /\ neighborId \notin visited

\* visited.add(id); node.cluster = clusterId; queue.push(id)
Label(cs, id) ==
  [cs EXCEPT !.visited = @ \cup {id},
             !.writes = Append(@, [id |-> id, cluster |-> cs.clusterId]),
             !.queue = Append(@, id)]

\* neighbors.forEach(neighborId => { ... })
RECURSIVE VisitNeighbors(_, _, _)
VisitNeighbors(cs, nodeIds, neighbors) ==
  IF neighbors = <<>>
    THEN cs
    ELSE IF ShouldLabel(cs.visited, nodeIds, Head(neighbors))
           THEN VisitNeighbors(Label(cs, Head(neighbors)), nodeIds, Tail(neighbors))
           ELSE VisitNeighbors(cs, nodeIds, Tail(neighbors))

\* const currentId = queue.shift()!; its neighbors are visited.
VisitCurrent(cs, adj, nodeIds) ==
  VisitNeighbors([cs EXCEPT !.queue = Tail(@)], nodeIds,
                 Neighbors(adj, Head(cs.queue)))

\* for (let i = 0; i < batchSize; i++) { ... }
RECURSIVE ClusterLevel(_, _, _, _)
ClusterLevel(cs, adj, nodeIds, batchSize) ==
  IF cs.i >= batchSize
    THEN cs
    ELSE ClusterLevel([VisitCurrent(cs, adj, nodeIds) EXCEPT !.i = @ + 1],
                      adj, nodeIds, batchSize)

\* Fault variant of ClusterBFS: the search runs until the queue is empty.
RECURSIVE ClusterBFSToEnd(_, _, _)
ClusterBFSToEnd(cs, adj, nodeIds) ==
  IF cs.queue = <<>>
    THEN cs
    ELSE ClusterBFSToEnd([ClusterLevel([cs EXCEPT !.i = 0], adj, nodeIds, Len(cs.queue))
                            EXCEPT !.depth = @ + 1],
                         adj, nodeIds)

\* while (queue.length > 0 && depth < maxDepth) { ...; depth++ }
RECURSIVE ClusterBFS(_, _, _)
ClusterBFS(cs, adj, nodeIds) ==
  IF cs.queue = <<>> \/ cs.depth >= ClusterMaxDepth
    THEN cs
    ELSE ClusterBFS([ClusterLevel([cs EXCEPT !.i = 0], adj, nodeIds, Len(cs.queue))
                       EXCEPT !.depth = @ + 1],
                    adj, nodeIds)

\* Fault variant of ClusterFrom: the counter is left as it is.
ClusterFromSameId(cs, adj, nodeIds, id) ==
  ClusterBFS(Label([cs EXCEPT !.queue = <<>>, !.depth = 0], id), adj, nodeIds)

\* A new cluster is started at id: the body of `if (!visited.has(node.id))`.
ClusterFrom(cs, adj, nodeIds, id) ==
  [ClusterBFS(Label([cs EXCEPT !.queue = <<>>, !.depth = 0], id), adj, nodeIds)
     EXCEPT !.clusterId = @ + 1]

\* nodes.forEach(node => { if (!visited.has(node.id)) { ... } }), from the
\* n-th node on: the visited nodes are passed over, and a cluster is started
\* at the first node that is not visited.
RECURSIVE ClusterAll(_, _, _, _)
ClusterAll(cs, adj, nodes, n) ==
  LET unvisited == {i \in n..Len(nodes) : nodes[i].id \notin cs.visited}
  IN  IF unvisited = {}
        THEN cs
        ELSE LET m == CHOOSE i \in unvisited : \A j \in unvisited : i <= j
             IN  ClusterAll(ClusterFrom(cs, adj, NodeIds(nodes), nodes[m].id),
                            adj, nodes, m + 1)

ClusterWrites(nodes, links) ==
  ClusterAll([visited |-> {}, writes |-> <<>>, queue |-> <<>>, clusterId |-> 0,
              depth |-> 0, i |-> 0],
             Adjacency(nodes, links), nodes, 1).writes

\* The cluster a node holds after the writes (none when it was never written).
LastWrite(writes, id, none) ==
  LET ks == {k \in DOMAIN writes : writes[k].id = id}
  IN  IF ks = {}
        THEN none
        ELSE writes[CHOOSE k \in ks : \A j \in ks : j <= k].cluster

SetClusters(nodes, writes) ==
  [n \in DOMAIN nodes |-> [nodes[n] EXCEPT !.cluster = LastWrite(writes, nodes[n].id, @)]]

assignClusters(nodes, links) == SetClusters(nodes, ClusterWrites(nodes, links))

(***************************************************************************)
(* calculateDegreesOfSeparation.  distances is the Map of the code, kept   *)
(* as the set of its entries [id, distance]; queue holds the same records. *)
(***************************************************************************)
HasDistance(distances, id) == \E e \in distances : e.id = id

\* distances.set(neighborId, newDistance); queue.push({ ... })
Reach(bs, id, newDistance) ==
  LET e == [id |-> id, distance |-> newDistance]
  IN  [distances |-> bs.distances \cup {e}, queue |-> Append(bs.queue, e)]

\* neighbors.forEach(neighborId => { if (!distances.has(neighborId)) ... })
RECURSIVE ReachNeighbors(_, _, _)
ReachNeighbors(bs, current, neighbors) ==
  IF neighbors = <<>>
    THEN bs
    ELSE IF ~HasDistance(bs.distances, Head(neighbors))
           THEN ReachNeighbors(Reach(bs, Head(neighbors), current.distance + 1),
                               current, Tail(neighbors))
           ELSE ReachNeighbors(bs, current, Tail(neighbors))

\* while (queue.length > 0) { const current = queue.shift() ... }
RECURSIVE DistanceBFS(_, _)
DistanceBFS(bs, adj) ==
  IF bs.queue = <<>>
    THEN bs
    ELSE DistanceBFS(
           ReachNeighbors([bs EXCEPT !.queue = Tail(@)], Head(bs.queue),
                          Neighbors(adj, Head(bs.queue).id)),
           adj)

Distances(nodes, links, ref) ==
  LET start == [id |-> ref, distance |-> 0]
  IN  DistanceBFS([distances |-> {start}, queue |-> <<start>>],
                  Adjacency(nodes, links)).distances

\* node.degreesFromRoot = distances.get(node.id)
SetDistances(nodes, distances) ==
  [n \in DOMAIN nodes |->
     [nodes[n] EXCEPT !.degreesFromRoot =
        IF HasDistance(distances, nodes[n].id)
          THEN (CHOOSE e \in distances : e.id = nodes[n].id).distance
          ELSE Absent]]

calculateDegreesOfSeparation(nodes, links, ref) ==
  SetDistances(nodes, Distances(nodes, links, ref))

IsHubNode(n) == n.isHub
IsBidirectionalLink(l) == l.isBidirectional

\* Fault variant of Stats: a mutual pair is counted once.
StatsPairsOnce(nodes, links) ==
  [totalNodes |-> Len(nodes),
   totalLinks |-> Len(links),
   hubs |-> Len(SelectSeq(nodes, IsHubNode)),
   bidirectionalLinks |-> (Len(SelectSeq(links, IsBidirectionalLink)) + 1) \div 2,
   clusters |-> Cardinality({nodes[i].cluster : i \in DOMAIN nodes} \ {Absent})]

\* The statistics of the returned GraphData.
Stats(nodes, links) ==
  [totalNodes |-> Len(nodes),
   totalLinks |-> Len(links),
   hubs |-> Len(SelectSeq(nodes, IsHubNode)),
   bidirectionalLinks |-> Len(SelectSeq(links, IsBidirectionalLink)),
   clusters |-> Cardinality({nodes[i].cluster : i \in DOMAIN nodes} \ {Absent})]

\* Everything the query function does after the collection loop.
Analyze(nodes0, links0, ref) ==
  LET links == MarkBidirectional(links0, 1)
      counted == CountDegrees(nodes0, links0)
      sized == DetectHubs(counted)
      clustered == assignClusters(sized, links)
      nodes == IF ref # Undef
                 THEN calculateDegreesOfSeparation(clustered, links, ref)
                 ELSE clustered
  IN  [nodes |-> nodes, links |-> links, stats |-> Stats(nodes, links)]

(***************************************************************************)
(* The run.                                                                *)
(***************************************************************************)
Depths == 0..MaxDepth
Limits == {SmallLimit}
\* referenceUser: not passed or the root for a rooted run; an identity that
\* need not be part of the graph for a global run.
RootedRefs == {Undef, "a"}
GlobalRefs == {"a"}

\* The query function up to its first query or to the head of the loop.
\* Fault variant of Start: the start identity is queued but gets no node.
StartWithoutRootNode(worlds, starts, limits, refs) ==
  /\ depth \in DOMAIN worlds
  /\ relay \in worlds[depth]
  /\ startPubkey \in starts
  /\ limit \in limits
  /\ referenceUser \in refs
  /\ linksMap = <<>>
  /\ processed = {}
  /\ batch = <<>>
  /\ currentLevel = 0
  /\ graphData = <<>>
  /\ fetched = {}
  /\ nodesMap = <<>>
  /\ IF startPubkey # Undef
       THEN /\ toProcess = <<[pubkey |-> startPubkey, level |-> 0]>>
            /\ pushed = <<startPubkey>>
            /\ pc = "loop"
       ELSE /\ toProcess = <<>>
            /\ pushed = <<>>
            /\ pc = "seed"

\* worlds[d] are the worlds tried with depth d.
Start(worlds, starts, limits, refs) ==
  /\ depth \in DOMAIN worlds
  /\ relay \in worlds[depth]
  /\ startPubkey \in starts
  /\ limit \in limits
  /\ referenceUser \in refs
  /\ linksMap = <<>>
  /\ processed = {}
  /\ batch = <<>>
  /\ currentLevel = 0
  /\ graphData = <<>>
  /\ fetched = {}
  /\ IF startPubkey # Undef
       THEN /\ toProcess = <<[pubkey |-> startPubkey, level |-> 0]>>
            /\ pushed = <<startPubkey>>
            /\ nodesMap = <<NewNode(startPubkey, RootVal)>>
            /\ pc = "loop"
       ELSE /\ toProcess = <<>>
            /\ pushed = <<>>
            /\ nodesMap = <<>>
            /\ pc = "seed"

\* No second call is in flight.
NoRun == [pc |-> "none"]
\* No call of useSocialGraph is in flight.
NoCall == [pc |-> "none"]

Init ==
  /\ other = NoRun
  /\ sg = NoCall
  /\ \/ Start([d \in Depths |-> RootedWorlds(d)], {"a"}, Limits, RootedRefs)
     \/ Start([d \in Depths |-> GlobalWorlds], {Undef}, Limits, GlobalRefs)

\* The maps and sets of the query function, and the positions e and k of
\* its two for-of loops.
Acc == [nodes |-> nodesMap, links |-> linksMap, queue |-> toProcess,
        processed |-> processed, e |-> 0, k |-> 0]

\* The unscoped query [{ kinds: [3], limit }] returns: its authors are seeded.
SeedReturn ==
  /\ pc = "seed"
  /\ \E events \in BSeq(relay, Min(MaxResp, limit)) :
       LET st == SeedAuthors(Acc, events)
       IN  /\ nodesMap' = st.nodes
           /\ toProcess' = st.queue
           /\ fetched' = fetched \cup SeqToSet(events)
  /\ pc' = "loop"
  /\ UNCHANGED <<options, other, sg, linksMap, processed, batch, currentLevel, graphData,
                 pushed>>

\* Fault variant of Dequeue: the batch is read but not removed (slice for
\* splice).
DequeueSlice ==
  /\ pc = "loop"
  /\ toProcess # <<>>
  /\ LET n == Min(BatchSize, Len(toProcess))
         b == SubSeq(toProcess, 1, n)
     IN  /\ batch' = b
         /\ toProcess' = toProcess
         /\ currentLevel' = b[1].level
         /\ IF b[1].level >= depth
              THEN /\ processed' = processed \cup SeqToSet(Pubkeys(b))
                   /\ pc' = "loop"
              ELSE /\ processed' = processed
                   /\ pc' = "fetching"
  /\ UNCHANGED <<options, other, sg, nodesMap, linksMap, graphData, fetched, pushed>>

\* One pass through the head of the loop: the next batch is taken, and
\* either skipped (its level has reached depth) or queried.
Dequeue ==
  /\ pc = "loop"
  /\ toProcess # <<>>
  /\ LET n == Min(BatchSize, Len(toProcess))
         b == SubSeq(toProcess, 1, n)
     IN  /\ batch' = b
         /\ toProcess' = SubSeq(toProcess, n + 1, Len(toProcess))
         /\ currentLevel' = b[1].level
         /\ IF b[1].level >= depth
              THEN /\ processed' = processed \cup SeqToSet(Pubkeys(b))
                   /\ pc' = "loop"
              ELSE /\ processed' = processed
                   /\ pc' = "fetching"
  /\ UNCHANGED <<options, other, sg, nodesMap, linksMap, graphData, fetched, pushed>>

\* The query for the batch returns and its events are applied.
FetchReturn ==
  /\ pc = "fetching"
  /\ \E events \in Responses(Pubkeys(batch)) :
       LET st == ApplyEvents(Acc, events, currentLevel, depth)
       IN  /\ nodesMap' = st.nodes
           /\ linksMap' = st.links
           /\ toProcess' = st.queue
           /\ processed' = st.processed
           /\ fetched' = fetched \cup SeqToSet(events)
  /\ pc' = "loop"
  /\ UNCHANGED <<options, other, sg, batch, currentLevel, graphData, pushed>>

\* Fault variant of FetchFail: the rejection is caught and what has been
\* collected is analysed and handed over with the failure.
FetchFailPartial ==
  /\ pc \in {"seed", "fetching"}
  /\ LET data == Analyze(nodesMap, linksMap, referenceUser)
     IN  /\ nodesMap' = data.nodes
         /\ linksMap' = data.links
         /\ graphData' = <<data>>
  /\ pc' = "failed"
  /\ UNCHANGED <<options, other, sg, processed, toProcess, batch, currentLevel, fetched,
                 pushed>>

\* A query rejects (relay error, abort, timeout): the query function throws.
FetchFail ==
  /\ pc \in {"seed", "fetching"}
  /\ pc' = "failed"
  /\ UNCHANGED <<options, other, sg, nodesMap, linksMap, processed, toProcess, batch,
                 currentLevel, graphData, fetched, pushed>>

\* Fault variant of Finish: the average degree of no node at all (0 / 0)
\* is an error.
FinishFailsOnEmpty ==
  /\ pc = "loop"
  /\ toProcess = <<>>
  /\ IF nodesMap = <<>>
       THEN /\ pc' = "failed"
            /\ UNCHANGED <<nodesMap, linksMap, graphData>>
       ELSE /\ LET data == Analyze(nodesMap, linksMap, referenceUser)
               IN  /\ nodesMap' = data.nodes
                   /\ linksMap' = data.links
                   /\ graphData' = <<data>>
            /\ pc' = "done"
  /\ UNCHANGED <<options, other, sg, processed, toProcess, batch, currentLevel, fetched,
                 pushed>>

\* The loop has ended: the analytics pass runs and the GraphData is returned.
Finish ==
  /\ pc = "loop"
  /\ toProcess = <<>>
  /\ LET data == Analyze(nodesMap, linksMap, referenceUser)
     IN  /\ nodesMap' = data.nodes
         /\ linksMap' = data.links
         /\ graphData' = <<data>>
  /\ pc' = "done"
  /\ UNCHANGED <<options, other, sg, processed, toProcess, batch, currentLevel, fetched,
                 pushed>>

Next == SeedReturn \/ Dequeue \/ FetchReturn \/ FetchFail \/ Finish

Spec == Init /\ [][Next]_vars

(***************************************************************************)
(* Wide worlds: follow lists longer than a batch, and a hub.               *)
(***************************************************************************)
Leaf(i) == "n" \o ToString(i)
LeafTags(n) == [i \in 1..n |-> PTag(Leaf(i))]

\* The root follows itself and StarLeaves identities, each of which follows
\* the root back.
StarWorld ==
  {Event("a", 1, <<PTag("a")>> \o LeafTags(StarLeaves))}
    \cup {Event(Leaf(i), 1, <<PTag("a")>>) : i \in 1..StarLeaves}

\* The root follows one identity more than a batch holds; the first of
\* them starts the chain n1 -> b -> c -> d.
ChainLeaves == BatchSize + 1
ChainWorld ==
  {Event("a", 1, LeafTags(ChainLeaves)),
   Event(Leaf(1), 1, <<PTag("b")>>),
   Event("b", 1, <<PTag("c")>>),
   Event("c", 1, <<PTag("d")>>)}

WideInit ==
  /\ other = NoRun
  /\ sg = NoCall
  /\ \/ Start([d \in {StarDepth} |-> {StarWorld}], {"a"}, Limits, {Undef})
     \/ Start([d \in {ChainDepth} |-> {ChainWorld}], {"a", Undef}, Limits, {Undef})

WideSpec == WideInit /\ [][Next]_vars

(***************************************************************************)
(* Stale worlds: "a" has published two contact lists, at times 1 and 2;    *)
(* "b" has published one or none.  A query may return either or both of    *)
(* the records of "a".                                                     *)
(***************************************************************************)
StaleTagLists == {<<>>} \cup {<<PTag(id)>> : id \in Ids}

StaleWorlds ==
  {{Event("a", 1, old), Event("a", 2, new)} \cup rest :
     old \in StaleTagLists, new \in StaleTagLists,
     rest \in {{}} \cup {{Event("b", 1, t)} : t \in StaleTagLists}}

StaleInit ==
  /\ other = NoRun
  /\ sg = NoCall
  /\ \/ Start([d \in Depths |-> StaleWorlds], {"a"}, Limits, {Undef})
     \/ Start([d \in Depths |-> StaleWorlds], {Undef}, Limits, {Undef})

StaleSpec == StaleInit /\ [][Next]_vars

(***************************************************************************)
(* Complete answers: every query returns the record of each requested      *)
(* author that has one, once, in any order.                                *)
(***************************************************************************)
Orderings(s) ==
  {[i \in DOMAIN s |-> s[f[i]]] :
     f \in {g \in [DOMAIN s -> DOMAIN s] : \A i, j \in DOMAIN s : g[i] = g[j] => i = j}}

\* The query for the batch returns every record asked for, in some order,
\* and the records are applied.
FetchEach ==
  /\ pc = "fetching"
  /\ \E events \in Orderings(LatestOfEach(Pubkeys(batch))) :
       LET st == ApplyEvents(Acc, events, currentLevel, depth)
       IN  /\ nodesMap' = st.nodes
           /\ linksMap' = st.links
           /\ toProcess' = st.queue
           /\ processed' = st.processed
           /\ fetched' = fetched \cup SeqToSet(events)
  /\ pc' = "loop"
  /\ UNCHANGED <<options, other, sg, batch, currentLevel, graphData, pushed>>

XLeaf(i) == "x" \o ToString(i)

\* The root follows one identity more than a batch holds.  n1 follows one
\* identity fewer than a batch holds, n2 follows y, and y starts the chain
\* y -> z -> w.
OrderLeaves == BatchSize - 1
OrderWorld ==
  {Event("a", 1, LeafTags(ChainLeaves)),
   Event(Leaf(1), 1, [i \in 1..OrderLeaves |-> PTag(XLeaf(i))]),
   Event(Leaf(2), 1, <<PTag("y")>>),
   Event("y", 1, <<PTag("z")>>),
   Event("z", 1, <<PTag("w")>>)}

OrderInit ==
  /\ other = NoRun
  /\ sg = NoCall
  /\ \/ Start([d \in Depths |-> RootedWorlds(d)], {"a"}, Limits, {Undef})
     \/ Start([d \in {ChainDepth} |-> {ChainWorld, OrderWorld}], {"a"}, Limits, {Undef})

OrderNext == Dequeue \/ FetchEach \/ Finish

OrderSpec == OrderInit /\ [][OrderNext]_vars

\* The run in which every query returns the records in the order of the
\* request: one pass of the loop, and the loop.
RunBatch(st, d) ==
  LET n == Min(BatchSize, Len(st.queue))
      b == SubSeq(st.queue, 1, n)
      rest == [st EXCEPT !.queue = SubSeq(@, n + 1, Len(@)), !.e = 0]
  IN  IF b[1].level >= d
        THEN [rest EXCEPT !.processed = @ \cup SeqToSet(Pubkeys(b))]
        ELSE ApplyEvents(rest, LatestOfEach(Pubkeys(b)), b[1].level, d)

RECURSIVE RunLoop(_, _)
RunLoop(st, d) ==
  IF st.queue = <<>>
    THEN st
    ELSE RunLoop(RunBatch(st, d), d)

\* The nodes and links collected by the run rooted at root with depth d.
InOrderRun(root, d) ==
  RunLoop([nodes |-> <<NewNode(root, RootVal)>>, links |-> <<>>,
           queue |-> <<[pubkey |-> root, level |-> 0]>>,
           processed |-> {}, e |-> 0, k |-> 0], d)

(***************************************************************************)
(* Two calls in flight.  The query function is async: a call runs until it *)
(* awaits a query, and another call may run before it is resumed.  The     *)
(* variables hold the options and locals of the call that runs, `other`    *)
(* those of the call that is suspended or not started yet.                 *)
(***************************************************************************)
Locals ==
  [startPubkey |-> startPubkey, depth |-> depth, limit |-> limit,
   referenceUser |-> referenceUser, nodesMap |-> nodesMap, linksMap |-> linksMap,
   processed |-> processed, toProcess |-> toProcess, batch |-> batch,
   currentLevel |-> currentLevel, pc |-> pc, graphData |-> graphData,
   fetched |-> fetched]

\* Fault variant of Switch: nodesMap and linksMap are shared by the calls
\* (one pair of maps outside the query function).
SwitchSharedMaps ==
  /\ pc \in {"seed", "fetching", "done", "failed"}
  /\ other.pc \in {"seed", "loop", "fetching"}
  /\ other' = Locals
  /\ startPubkey' = other.startPubkey
  /\ depth' = other.depth
  /\ limit' = other.limit
  /\ referenceUser' = other.referenceUser
  /\ processed' = other.processed
  /\ toProcess' = other.toProcess
  /\ batch' = other.batch
  /\ currentLevel' = other.currentLevel
  /\ pc' = other.pc
  /\ graphData' = other.graphData
  /\ fetched' = other.fetched
  /\ UNCHANGED <<relay, sg, pushed, nodesMap, linksMap>>

\* The call that runs awaits a query or has ended, and the other call is
\* started or resumed: each call has its own options, maps, set and queue.
Switch ==
  /\ pc \in {"seed", "fetching", "done", "failed"}
  /\ other.pc \in {"seed", "loop", "fetching"}
  /\ other' = Locals
  /\ startPubkey' = other.startPubkey
  /\ depth' = other.depth
  /\ limit' = other.limit
  /\ referenceUser' = other.referenceUser
  /\ nodesMap' = other.nodesMap
  /\ linksMap' = other.linksMap
  /\ processed' = other.processed
  /\ toProcess' = other.toProcess
  /\ batch' = other.batch
  /\ currentLevel' = other.currentLevel
  /\ pc' = other.pc
  /\ graphData' = other.graphData
  /\ fetched' = other.fetched
  /\ UNCHANGED <<relay, sg, pushed>>

\* A rooted call that has run up to the head of its loop.
RootedCall(root, d, l) ==
  [startPubkey |-> root, depth |-> d, limit |-> l, referenceUser |-> Undef,
   nodesMap |-> <<NewNode(root, RootVal)>>, linksMap |-> <<>>, processed |-> {},
   toProcess |-> <<[pubkey |-> root, level |-> 0]>>, batch |-> <<>>,
   currentLevel |-> 0, pc |-> "loop", graphData |-> <<>>, fetched |-> {}]

\* Worlds in which every identity has published one contact list at most,
\* which follows one identity at most.
PairWorlds ==
  UNION {{{Event(id, 1, f[id]) : id \in A} : f \in [A -> StaleTagLists]} :
           A \in SUBSET Ids}

\* A call rooted at "a", and a second call rooted at "b" (the root was
\* changed) that starts while the first awaits a query.
PairInit ==
  /\ Start([d \in 1..MaxDepth |-> PairWorlds], {"a"}, Limits, {Undef})
  /\ other \in {RootedCall("b", d, l) : d \in 1..MaxDepth, l \in Limits}
  /\ sg = NoCall

PairNext == Dequeue \/ FetchEach \/ Finish \/ Switch

PairSpec == PairInit /\ [][PairNext]_vars

\* The steps that resume the async function after an await, or end it.
Resume == SeedReturn \/ FetchReturn \/ FetchFail \/ Finish

\* A Resume step exists exactly while a query is pending (the relay may
\* always answer with no event, or reject) or once the queue has drained.
ResumeEnabled == pc \in {"seed", "fetching"} \/ (pc = "loop" /\ toProcess = <<>>)

\* Weak fairness of Resume, with ENABLED <<Resume>>_vars written as the
\* state predicate it is equivalent to.
ResumeFair == []<>(~ResumeEnabled) \/ []<><<Resume>>_vars

\* The worlds whose follow lists hold one tag at most: chains, self-loops,
\* mutual follows and longer cycles.
CycleWorlds(worlds) == {w \in worlds : \A e \in w : Len(e.tags) <= 1}

\* The runs whose termination is checked: rooted and global runs over the
\* cycle worlds, and the rooted run over the chain world, whose batches hold
\* a part of the queue.  No reference user is passed to a rooted run (the
\* reference user is read by Finish only).
FairInit ==
  /\ other = NoRun
  /\ sg = NoCall
  /\ \/ Start([d \in Depths |-> CycleWorlds(RootedWorlds(d))], {"a"}, Limits, {Undef})
     \/ Start([d \in Depths |-> CycleWorlds(GlobalWorlds)], {Undef}, Limits, GlobalRefs)
     \/ Start([d \in {ChainDepth} |-> {ChainWorld}], {"a"}, Limits, {Undef})

\* The relay answers or rejects every query, and every continuation of the
\* async function is eventually run.
FairSpec == FairInit /\ [][Next]_vars /\ WF_vars(Dequeue) /\ ResumeFair

(***************************************************************************)
(* Properties.                                                             *)
(***************************************************************************)
Returned == pc = "done"
Snapshot == graphData[1]
Rooted == startPubkey # Undef

\* C1: no dangling edges.  In every state of the run, and in the returned
\* snapshot, the source and the target of every edge are ids of nodes.
NoDanglingEdges ==
  /\ \A i \in DOMAIN linksMap :
       linksMap[i].source \in NodeIds(nodesMap) /\ linksMap[i].target \in NodeIds(nodesMap)
  /\ Returned =>
       \A i \in DOMAIN Snapshot.links :
         /\ Snapshot.links[i].source \in NodeIds(Snapshot.nodes)
         /\ Snapshot.links[i].target \in NodeIds(Snapshot.nodes)

\* A returned snapshot with three edges, one of them to a node that was
\* created at the last level (never queued).
NoDanglingEdgesWitness ==
  /\ Returned
  /\ Len(Snapshot.links) >= 3
  /\ \E i \in DOMAIN Snapshot.links :
       Snapshot.links[i].target \notin processed \cup {startPubkey}

\* C2: no duplicates.  In every state the edge list holds at most one edge
\* per ordered (source, target) pair and the node list at most one node per
\* identity.
NoDuplicates ==
  /\ \A i, j \in DOMAIN linksMap :
       (linksMap[i].source = linksMap[j].source /\ linksMap[i].target = linksMap[j].target)
         => i = j
  /\ \A i, j \in DOMAIN nodesMap : nodesMap[i].id = nodesMap[j].id => i = j

\* A record that lists one identity in two "p" tags has been applied.
NoDuplicatesWitness ==
  /\ Returned
  /\ \E e \in relay :
       /\ e.pubkey \in processed
       /\ e.tags = <<PTag("b"), PTag("b")>>
       /\ \E i \in DOMAIN linksMap :
            linksMap[i].source = e.pubkey /\ linksMap[i].target = "b"

\* C3: importance range.  In the returned snapshot every node's val is at
\* least the minimum seed value 3 and at most 20.
ValRange ==
  Returned =>
    \A i \in DOMAIN Snapshot.nodes :
      /\ MinVal * ValScale <= Snapshot.nodes[i].val
      /\ Snapshot.nodes[i].val <= ValCap * ValScale

\* The identities within k directed hops of those of S along the edges.
RECURSIVE DWithin(_, _, _)
DWithin(links, S, k) ==
  IF k = 0
    THEN S
    ELSE DWithin(links,
                 S \cup {links[i].target : i \in {j \in DOMAIN links : links[j].source \in S}},
                 k - 1)

\* C4: depth respect.  In a rooted run with depth d every node of the
\* returned snapshot is within d directed hops of the root along the
\* fetched follow edges.
DepthRespect ==
  (Returned /\ Rooted) =>
    NodeIds(Snapshot.nodes) \subseteq DWithin(Snapshot.links, {startPubkey}, depth)

\* C5: node budget.  The returned snapshot holds at most `limit` nodes.
NodeBudget ==
  Returned => Len(Snapshot.nodes) <= limit

\* C6: bidirectional symmetry.  In the returned snapshot an edge s->t has
\* isBidirectional exactly when the edge t->s is in the edge set, and then
\* the edge t->s has isBidirectional too.
IsReverse(l, m) == m.source = l.target /\ m.target = l.source

BidirectionalSymmetry ==
  Returned =>
    \A i \in DOMAIN Snapshot.links :
      LET l == Snapshot.links[i]
          reverse == {j \in DOMAIN Snapshot.links : IsReverse(l, Snapshot.links[j])}
      IN  /\ l.isBidirectional <=> reverse # {}
          /\ \A j \in reverse : l.isBidirectional => Snapshot.links[j].isBidirectional

\* A snapshot with a mutual pair of distinct identities and a one-way edge.
BidirectionalSymmetryWitness ==
  /\ Returned
  /\ \E i, j, k \in DOMAIN Snapshot.links :
       /\ Snapshot.links[i].source # Snapshot.links[i].target
       /\ IsReverse(Snapshot.links[i], Snapshot.links[j])
       /\ Snapshot.links[i].isBidirectional
       /\ ~Snapshot.links[k].isBidirectional

\* C7: clustering completeness.  After assignClusters every node of the
\* snapshot has a cluster value, and the pass has written the cluster of
\* every node exactly once (no node is relabeled).
ClusteringComplete ==
  Returned =>
    LET writes == ClusterWrites(Snapshot.nodes, Snapshot.links)
    IN  \A i \in DOMAIN Snapshot.nodes :
          /\ Snapshot.nodes[i].cluster \in Nat
          /\ Cardinality({k \in DOMAIN writes : writes[k].id = Snapshot.nodes[i].id}) = 1

\* A snapshot with two nodes in one cluster and a third node in another.
ClusteringCompleteWitness ==
  /\ Returned
  /\ \E i, j, k \in DOMAIN Snapshot.nodes :
       /\ i # j
       /\ Snapshot.nodes[i].cluster = Snapshot.nodes[j].cluster
       /\ Snapshot.nodes[i].cluster # Snapshot.nodes[k].cluster
       /\ Snapshot.nodes[k].cluster \in Nat

\* The identities within k undirected hops of those of S.
RECURSIVE UWithin(_, _, _)
UWithin(links, S, k) ==
  IF k = 0
    THEN S
    ELSE UWithin(links,
                 S \cup {links[i].target : i \in {j \in DOMAIN links : links[j].source \in S}}
                   \cup {links[i].source : i \in {j \in DOMAIN links : links[j].target \in S}},
                 k - 1)

\* The shortest undirected hop distance from ref to id, Absent when no
\* undirected path joins them (a path visits at most Len(links) + 1 nodes).
UDistance(links, ref, id) ==
  IF id \notin UWithin(links, {ref}, Len(links))
    THEN Absent
    ELSE CHOOSE k \in 0..Len(links) :
           /\ id \in UWithin(links, {ref}, k)
           /\ \A j \in 0..(k - 1) : id \notin UWithin(links, {ref}, j)

\* C8: distance labels.  With the reference identity in the node set, every
\* node's degreesFromRoot is its shortest undirected hop distance from the
\* reference (0 for the reference), and is absent for a node no undirected
\* path joins to the reference.
DistanceLabels ==
  (Returned /\ referenceUser # Undef /\ referenceUser \in NodeIds(Snapshot.nodes)) =>
    \A i \in DOMAIN Snapshot.nodes :
      Snapshot.nodes[i].degreesFromRoot =
        UDistance(Snapshot.links, referenceUser, Snapshot.nodes[i].id)

\* A snapshot with the reference at 0, a node one hop away and a node that no
\* path joins to the reference.
DistanceLabelsWitness ==
  /\ Returned
  /\ referenceUser # Undef
  /\ \E i, j, k \in DOMAIN Snapshot.nodes :
       /\ Snapshot.nodes[i].id = referenceUser
       /\ Snapshot.nodes[i].degreesFromRoot = 0
       /\ Snapshot.nodes[j].degreesFromRoot = 1
       /\ Snapshot.nodes[k].degreesFromRoot = Absent

\* C10: in a rooted run the root is a node from the first state on, and is
\* a node of the returned snapshot.
RootIsNode ==
  Rooted =>
    /\ startPubkey \in NodeIds(nodesMap)
    /\ Returned => startPubkey \in NodeIds(Snapshot.nodes)

\* A rooted run that queried the root, got no record of it, and returned
\* the root alone.
RootIsNodeWitness ==
  /\ Returned
  /\ Rooted
  /\ depth >= 1
  /\ startPubkey \notin processed
  /\ NodeIds(Snapshot.nodes) = {startPubkey}

\* The world in which "a" alone has published, and follows itself.
SelfLoopWorld == relay = {Event("a", 1, <<PTag("a")>>)}

SelfLoopApplied ==
  Returned /\ Rooted /\ SelfLoopWorld /\ startPubkey \in processed

\* C9: termination.  Every run in which each query is answered or rejected
\* ends: it fails, or the frontier is emptied and the snapshot returned.  A
\* record in which the root follows itself gives exactly one edge a->a and
\* the node set {a}.
Termination ==
  /\ <>(pc = "failed" \/ (Returned /\ toProcess = <<>>))
  /\ [](SelfLoopApplied =>
         /\ Len(Snapshot.links) = 1
         /\ Snapshot.links[1].source = startPubkey
         /\ Snapshot.links[1].target = startPubkey
         /\ NodeIds(Snapshot.nodes) = {startPubkey})

\* A run whose root follows itself has applied that record and returned.
TerminationWitness ==
  SelfLoopApplied /\ toProcess = <<>> /\ depth > 1

\* The GraphData of no node and no link.
EmptySnapshot ==
  [nodes |-> <<>>, links |-> <<>>,
   stats |-> [totalNodes |-> 0, totalLinks |-> 0, hubs |-> 0,
              bidirectionalLinks |-> 0, clusters |-> 0]]

\* The unscoped query of a global run has returned, with no event.
SeedFoundNothing == ~Rooted /\ pc \in {"loop", "done"} /\ fetched = {}

FailureIsTerminal ==
  /\ [](pc = "failed" => graphData = <<>>)
  /\ [][pc # "failed"]_vars

\* A run that failed in a later round, with nodes and edges collected.
FailureIsTerminalWitness ==
  pc = "failed" /\ Len(linksMap) >= 1 /\ Len(nodesMap) >= 2 /\ processed # {}

\* The values, in order, of the "p" tags that carry a non-empty value.
IsUsablePTag(tag) == Len(tag) >= 2 /\ tag[1] = "p" /\ tag[2] # ""
UsableValues(tags) ==
  LET usable == SelectSeq(tags, IsUsablePTag)
  IN  [i \in DOMAIN usable |-> usable[i][2]]

\* C13: contact-list parsing.  The identities extracted from every applied
\* record are the values, in order, of its "p" tags that carry a value; no
\* node and no edge with an absent id is ever created.
UsableIdentitiesOnly ==
  /\ \A e \in fetched :
       e.pubkey \in processed => FollowedPubkeys(e) = UsableValues(e.tags)
  /\ \A i \in DOMAIN nodesMap : nodesMap[i].id \notin {Undef, ""}
  /\ \A i \in DOMAIN linksMap :
       linksMap[i].source \notin {Undef, ""} /\ linksMap[i].target \notin {Undef, ""}

\* Two of the fetched records are by one author, with different timestamps.
Superseded(e, f) == e.pubkey = f.pubkey /\ e.created_at < f.created_at

\* The newest of the fetched records of an author.
LatestFetched(pk) ==
  CHOOSE e \in fetched :
    e.pubkey = pk /\ \A f \in fetched : f.pubkey = pk => f.created_at <= e.created_at

OutEdges(links, pk) ==
  {links[i].target : i \in {j \in DOMAIN links : links[j].source = pk}}

\* C14: the most recent record is authoritative.  When the records fetched
\* by a rooted run hold more than one record of an author, with different
\* timestamps, the author's outgoing edges in the snapshot are exactly the
\* identities followed in the record with the greatest timestamp.
LatestRecordWins ==
  (Returned /\ Rooted) =>
    \A e \in fetched :
      (\E f \in fetched : Superseded(e, f)) =>
        OutEdges(Snapshot.links, e.pubkey)
          = SeqToSet(FollowedPubkeys(LatestFetched(e.pubkey)))

\* C20: global mode seeding.  When the unscoped fetch has returned several
\* records by one author, the frontier holds that author, like every
\* distinct author, once, at level 0.
SeedsOnce ==
  (~Rooted /\ pc = "loop" /\ processed = {} /\ linksMap = <<>>
     /\ \E e, f \in fetched : e # f /\ e.pubkey = f.pubkey) =>
    /\ \A i, j \in DOMAIN toProcess :
         toProcess[i].pubkey = toProcess[j].pubkey => i = j
    /\ \A i \in DOMAIN toProcess : toProcess[i].level = 0

\* C17: batches never mix levels.  Every entry of a dequeued batch has the
\* level used for the whole batch, the level of its first entry.
BatchOneLevel ==
  \A i \in DOMAIN batch : batch[i].level = currentLevel

\* No entry still queued has a lower level than an entry already dequeued.
QueueBehindBatch ==
  \A i \in DOMAIN toProcess : \A j \in DOMAIN batch :
    toProcess[i].level >= batch[j].level

\* While the records of a batch are awaited, no entry of the batch has a
\* higher level than another entry of it, whose record is not applied yet.
PendingInOrder ==
  pc = "fetching" =>
    \A i, j \in DOMAIN batch : batch[i].level <= batch[j].level

\* C18: level ordering.  Levels are processed in increasing order: no
\* entry of level N+1 is dequeued before every entry of level N has been
\* dequeued and the mutations of its fetched record have been applied.
LevelOrdering ==
  /\ [](QueueBehindBatch /\ PendingInOrder)
  /\ [][currentLevel' >= currentLevel]_vars

LinkPairs(links) == {<<links[i].source, links[i].target>> : i \in DOMAIN links}

\* C15: membership determinism.  Rooted runs over the same records, with
\* the same root, depth and batch size, that differ only in the order of
\* the records inside the answers have the same node set and the same edge
\* set: those of the run whose answers come in the order of the requests.
MembershipDeterminism ==
  (Returned /\ Rooted) =>
    /\ NodeIds(Snapshot.nodes) = NodeIds(InOrderRun(startPubkey, depth).nodes)
    /\ LinkPairs(Snapshot.links) = LinkPairs(InOrderRun(startPubkey, depth).links)

\* C19: collection result against a reference.  A rooted run with depth
\* d >= 1 whose queries all return every record asked for ends with
\* exactly the identities at directed follow-distance <= d from the root
\* as nodes, and exactly the follows of the recorded identities at distance
\* <= d - 1 as edges.
CollectionReference ==
  (Returned /\ Rooted /\ depth >= 1) =>
    /\ NodeIds(Snapshot.nodes) = Within(relay, {startPubkey}, depth)
    /\ LinkPairs(Snapshot.links) =
         UNION {{<<s, t>> : t \in Follows(relay, s)} :
                  s \in Within(relay, {startPubkey}, depth - 1)}

\* The snapshot has the nodes and the edges that the call collects alone.
SnapshotOfAlone(data, root, d) ==
  /\ NodeIds(data.nodes) = NodeIds(InOrderRun(root, d).nodes)
  /\ LinkPairs(data.links) = LinkPairs(InOrderRun(root, d).links)

\* C16: two calls that run concurrently, interleaved at their awaits in
\* any order, share no mutable graph state.  A step of the call that runs
\* leaves the nodes, edges, frontier and processed set of the other call as
\* they are (the only other step exchanges the two calls), and the snapshot
\* of each call is the one it produces when it runs alone.
RunsIndependent ==
  /\ [][other' = other \/ (other' = Locals /\ Locals' = other)]_vars
  /\ [](Returned => SnapshotOfAlone(Snapshot, startPubkey, depth))
  /\ [](other.pc = "done" =>
          SnapshotOfAlone(other.graphData[1], other.startPubkey, other.depth))

\* Both calls await a query, each with nodes and edges of its own collected
\* in an earlier round.
RunsIndependentWitness ==
  /\ pc = "fetching"
  /\ other.pc = "fetching"
  /\ Len(linksMap) >= 1
  /\ Len(other.linksMap) >= 1
  /\ NodeIds(nodesMap) # NodeIds(other.nodesMap)

(***************************************************************************)
(* Worlds for the analytics pass: a clique, in which every identity has    *)
(* the same degree, and a fork, whose branches lie three hops from the     *)
(* root.                                                                   *)
(***************************************************************************)
CliqueSize == 6     \* identities of the clique world

CliqueIds == <<"a">> \o [i \in 1..(CliqueSize - 1) |-> Leaf(i)]

\* Every identity of the clique follows every other one.
CliqueWorld ==
  {Event(CliqueIds[i], 1,
         [k \in 1..(CliqueSize - 1) |-> PTag(CliqueIds[IF k < i THEN k ELSE k + 1])]) :
     i \in 1..CliqueSize}

\* a -> b -> c, and c follows d and e.
ForkWorld ==
  {Event("a", 1, <<PTag("b")>>),
   Event("b", 1, <<PTag("c")>>),
   Event("c", 1, <<PTag("d"), PTag("e")>>)}

\* Global runs over the small worlds, and rooted runs over the star, the
\* clique, the chain and the fork.
AnalyticsInit ==
  /\ other = NoRun
  /\ sg = NoCall
  /\ \/ Start([d \in Depths |-> GlobalWorlds], {Undef}, Limits, {Undef})
     \/ Start([d \in {StarDepth} |-> {StarWorld, CliqueWorld}], {"a"}, Limits, {Undef})
     \/ Start([d \in {ChainDepth} |-> {ChainWorld, ForkWorld}], {"a"}, Limits, {Undef})

AnalyticsSpec == AnalyticsInit /\ [][Next]_vars

\* The links of a snapshot that leave, or enter, the node id.
LinksFrom(links, id) == {j \in DOMAIN links : links[j].source = id}
LinksTo(links, id) == {j \in DOMAIN links : links[j].target = id}

\* The sum of f[i] over the domain of a sequence of natural numbers.
SumOf(f) == BagCardinality([i \in {j \in DOMAIN f : f[j] > 0} |-> f[i]])

\* C21: degree computation.  In the returned snapshot the outDegree of every
\* node is the number of edges whose source it is and its inDegree the number
\* of edges whose target it is (a self-loop counts once for each), so the sum
\* of the inDegrees, the sum of the outDegrees and stats.totalLinks are equal.
DegreeComputation ==
  Returned =>
    LET nodes == Snapshot.nodes
        links == Snapshot.links
    IN  /\ \A i \in DOMAIN nodes :
             /\ nodes[i].outDegree = Cardinality(LinksFrom(links, nodes[i].id))
             /\ nodes[i].inDegree = Cardinality(LinksTo(links, nodes[i].id))
        /\ SumOf([i \in DOMAIN nodes |-> nodes[i].inDegree]) = Snapshot.stats.totalLinks
        /\ SumOf([i \in DOMAIN nodes |-> nodes[i].outDegree]) = Snapshot.stats.totalLinks

\* A snapshot with a self-loop, an edge between two identities, and a node
\* that two edges enter.
DegreeComputationWitness ==
  /\ Returned
  /\ \E j, k \in DOMAIN Snapshot.links :
       /\ Snapshot.links[j].source = Snapshot.links[j].target
       /\ Snapshot.links[k].source # Snapshot.links[k].target
  /\ \E i \in DOMAIN Snapshot.nodes : Snapshot.nodes[i].inDegree >= 2

TotalDegree(node) == node.inDegree + node.outDegree

\* C22: hub classification.  In the returned snapshot a node is a hub if and
\* only if its total degree is at least twice the mean total degree of the
\* nodes and at least 10; with no node at all the pass does not fail, and the
\* snapshot counts no hub.
HubClassification ==
  /\ [](Returned =>
          LET nodes == Snapshot.nodes
              sum == SumOf([i \in DOMAIN nodes |-> TotalDegree(nodes[i])])
          IN  /\ \A i \in DOMAIN nodes :
                   nodes[i].isHub <=>
                     /\ TotalDegree(nodes[i]) * Len(nodes) >= 2 * sum
                     /\ TotalDegree(nodes[i]) >= 10
              /\ nodes = <<>> => Snapshot.stats.hubs = 0)
  /\ [][(pc = "loop" /\ toProcess = <<>> /\ nodesMap = <<>>) => pc' = "done"]_vars

\* A snapshot with a hub and with nodes that are none.
HubClassificationWitness ==
  /\ Returned
  /\ \E i, j \in DOMAIN Snapshot.nodes :
       Snapshot.nodes[i].isHub /\ ~Snapshot.nodes[j].isHub

\* C28: in every returned snapshot the number of hubs is at most half the
\* number of nodes: stats.hubs <= floor(stats.totalNodes / 2).
HubsAtMostHalf ==
  Returned => Snapshot.stats.hubs <= Snapshot.stats.totalNodes \div 2

\* A snapshot that counts a hub.
HubsAtMostHalfWitness ==
  /\ Returned
  /\ Snapshot.stats.hubs >= 1
  /\ Snapshot.stats.totalNodes > HubMinDegree

\* The seed of a cluster of a snapshot: the first node, in node order, that
\* holds its label.
IsSeed(nodes, i) == \A j \in 1..(i - 1) : nodes[j].cluster # nodes[i].cluster
SeedIndex(nodes, c) ==
  CHOOSE i \in DOMAIN nodes : nodes[i].cluster = c /\ IsSeed(nodes, i)

\* An edge joins x and y, in either direction.
Adjacent(links, x, y) ==
  \E l \in DOMAIN links :
    \/ links[l].source = x /\ links[l].target = y
    \/ links[l].source = y /\ links[l].target = x

\* Node m held a label before the round of the seed nodes[j] started.
AlreadyLabeled(nodes, m, j) == SeedIndex(nodes, nodes[m].cluster) < j

\* Node i is more than 2 undirected hops from the seed nodes[j], or every
\* path of at most 2 hops that joins them passes through a node that was
\* labeled already.
OutOfReach(nodes, links, j, i) ==
  \/ nodes[i].id \notin UWithin(links, {nodes[j].id}, 2)
  \/ /\ ~Adjacent(links, nodes[j].id, nodes[i].id)
     /\ \A m \in DOMAIN nodes :
          (Adjacent(links, nodes[j].id, nodes[m].id)
             /\ Adjacent(links, nodes[m].id, nodes[i].id))
            => AlreadyLabeled(nodes, m, j)

\* C23: cluster depth bound.  Every node labeled c lies within 2 undirected
\* hops of the seed of cluster c, and a node that is out of the reach of
\* every earlier seed (more than 2 hops away, or joined to it only through
\* nodes labeled already) is the seed of a new cluster.
ClusterDepthBound ==
  Returned =>
    LET nodes == Snapshot.nodes
        links == Snapshot.links
    IN  \A i \in DOMAIN nodes :
          /\ nodes[i].id \in
               UWithin(links, {nodes[SeedIndex(nodes, nodes[i].cluster)].id}, 2)
          /\ (\A j \in 1..(i - 1) : IsSeed(nodes, j) => OutOfReach(nodes, links, j, i))
               => IsSeed(nodes, i)

\* A snapshot with a node labeled from 2 hops away, and with a seed that
\* lies within 2 hops of an earlier seed other than the first.
ClusterDepthBoundWitness ==
  /\ Returned
  /\ \E i, j, k \in DOMAIN Snapshot.nodes :
       /\ 1 < j /\ j < i
       /\ IsSeed(Snapshot.nodes, j)
       /\ IsSeed(Snapshot.nodes, i)
       /\ Snapshot.nodes[i].id \in UWithin(Snapshot.links, {Snapshot.nodes[j].id}, 2)
       /\ Snapshot.nodes[k].cluster = Snapshot.nodes[1].cluster
       /\ ~Adjacent(Snapshot.links, Snapshot.nodes[1].id, Snapshot.nodes[k].id)
       /\ k # 1

\* The identities an edge joins to one of S.
Around(links, S) ==
  {links[l].target : l \in {j \in DOMAIN links : links[j].source \in S}}
    \cup {links[l].source : l \in {j \in DOMAIN links : links[j].target \in S}}

\* The number of rounds of the clustering from node n on, when the nodes of
\* `labeled` hold a label: a round starts at the first node without a label
\* and labels it, its neighbours without a label, and theirs.
RECURSIVE Rounds(_, _, _, _)
Rounds(nodes, links, n, labeled) ==
  LET free == {i \in n..Len(nodes) : nodes[i].id \notin labeled}
  IN  IF free = {}
        THEN 0
        ELSE LET m == CHOOSE i \in free : \A j \in free : i <= j
                 hop0 == labeled \cup {nodes[m].id}
                 hop1 == hop0 \cup (Around(links, {nodes[m].id}) \cap NodeIds(nodes))
                 hop2 == hop1 \cup (Around(links, hop1 \ hop0) \cap NodeIds(nodes))
             IN  1 + Rounds(nodes, links, m + 1, hop2)

\* C24: cluster ids.  The labels are handed out by a counter that starts at
\* 0 and grows by 1 with every seed: after a pass of k rounds the labels in
\* use are exactly 0..k-1, the seeds hold them in node order, the first node
\* holds 0, and stats.clusters is k.
ClusterIds ==
  Returned =>
    LET nodes == Snapshot.nodes
        k == Rounds(nodes, Snapshot.links, 1, {})
    IN  /\ {nodes[i].cluster : i \in DOMAIN nodes} = 0..(k - 1)
        /\ \A i \in DOMAIN nodes :
             IsSeed(nodes, i) =>
               nodes[i].cluster = Cardinality({j \in 1..(i - 1) : IsSeed(nodes, j)})
        /\ nodes # <<>> => nodes[1].cluster = 0
        /\ Snapshot.stats.clusters = k

\* A snapshot of three clusters or more, one of them with several nodes.
ClusterIdsWitness ==
  /\ Returned
  /\ Snapshot.stats.clusters >= 3
  /\ \E i \in DOMAIN Snapshot.nodes : ~IsSeed(Snapshot.nodes, i)

\* The edge records of a snapshot that are marked bidirectional.
Marked(links) == {i \in DOMAIN links : links[i].isBidirectional}

\* The pairs of edge records that join two distinct identities in the two
\* directions, and the edge records of an identity to itself.
MutualPairs(links) ==
  {{q[1], q[2]} : q \in {r \in (DOMAIN links) \X (DOMAIN links) :
                           /\ r[1] < r[2]
                           /\ links[r[1]].source # links[r[1]].target
                           /\ IsReverse(links[r[1]], links[r[2]])}}
SelfLoops(links) == {i \in DOMAIN links : links[i].source = links[i].target}

\* C25: aggregate stats.  In every returned snapshot stats.totalNodes is the
\* number of nodes, stats.totalLinks the number of edges, stats.hubs the
\* number of nodes with isHub set, and
\* stats.bidirectionalLinks the number of edge records marked bidirectional,
\* which counts 2 for every pair of distinct identities that follow each
\* other.
AggregateStats ==
  Returned =>
    LET nodes == Snapshot.nodes
        links == Snapshot.links
        stats == Snapshot.stats
    IN  /\ stats.totalNodes = Cardinality(DOMAIN nodes)
        /\ stats.totalLinks = Cardinality(DOMAIN links)
        /\ stats.hubs = Cardinality({i \in DOMAIN nodes : nodes[i].isHub})
        /\ stats.bidirectionalLinks = Cardinality(Marked(links))
        /\ \A p \in MutualPairs(links) : Cardinality(p \cap Marked(links)) = 2
        /\ (Cardinality(DOMAIN links) = 2 /\ MutualPairs(links) # {})
             => stats.bidirectionalLinks = 2

\* A snapshot whose edges are the two records of one mutual pair.
AggregateStatsWitness ==
  /\ Returned
  /\ Len(Snapshot.links) = 2
  /\ MutualPairs(Snapshot.links) # {}
  /\ Snapshot.stats.totalNodes >= 2

\* C29: an edge of an identity to itself is its own reverse: it is marked
\* bidirectional and counts once, so stats.bidirectionalLinks is twice the
\* number of mutually following pairs of distinct identities plus the number
\* of self-loops.
SelfLoopCount ==
  Returned =>
    LET links == Snapshot.links
    IN  /\ \A i \in SelfLoops(links) : links[i].isBidirectional
        /\ Snapshot.stats.bidirectionalLinks =
             2 * Cardinality(MutualPairs(links)) + Cardinality(SelfLoops(links))

\* A snapshot with a self-loop, a mutual pair and an edge one way only.
SelfLoopCountWitness ==
  /\ Returned
  /\ SelfLoops(Snapshot.links) # {}
  /\ MutualPairs(Snapshot.links) # {}
  /\ Marked(Snapshot.links) # DOMAIN Snapshot.links

(***************************************************************************)
(* Rooted runs only: over the small worlds, and over the chain world,      *)
(* whose batches hold a part of the queue.                                 *)
(***************************************************************************)
RootedInit ==
  /\ other = NoRun
  /\ sg = NoCall
  /\ \/ Start([d \in Depths |-> RootedWorlds(d)], {"a"}, Limits, {Undef})
     \/ Start([d \in {ChainDepth} |-> {ChainWorld}], {"a"}, Limits, {Undef})

\* FetchReturn, with the pubkey of every toProcess.push of the step added to
\* the history.
FetchReturnPushes ==
  /\ pc = "fetching"
  /\ \E events \in Responses(Pubkeys(batch)) :
       LET st == ApplyEvents(Acc, events, currentLevel, depth)
       IN  /\ nodesMap' = st.nodes
           /\ linksMap' = st.links
           /\ toProcess' = st.queue
           /\ processed' = st.processed
           /\ fetched' = fetched \cup SeqToSet(events)
           /\ pushed' = pushed \o Pushes(toProcess, st.queue)
  /\ pc' = "loop"
  /\ UNCHANGED <<options, other, sg, batch, currentLevel, graphData>>

RootedNext == Dequeue \/ FetchReturnPushes \/ FetchFail \/ Finish

RootedSpec == RootedInit /\ [][RootedNext]_vars

NoRepeat(seq) == \A i, j \in DOMAIN seq : seq[i] = seq[j] => i = j

\* C27: in every state of a rooted run every identity of the frontier has a
\* node, and no identity has been pushed onto the frontier more than once;
\* the batches are taken from the front of the frontier, in the order of the
\* pushes, so the contact list of an identity is asked for in one query at
\* most.
FrontierOnce ==
  Rooted =>
    /\ \A i \in DOMAIN toProcess : toProcess[i].pubkey \in NodeIds(nodesMap)
    /\ NoRepeat(pushed)
    /\ LET taken == Len(pushed) - Len(toProcess)
       IN  /\ taken >= Len(batch)
           /\ Pubkeys(batch) = SubSeq(pushed, taken - Len(batch) + 1, taken)
           /\ Pubkeys(toProcess) = SubSeq(pushed, taken + 1, Len(pushed))

\* A rooted run that has made two queries or more, in which two identities
\* follow a third, which was pushed.
FrontierOnceWitness ==
  /\ Rooted
  /\ Len(pushed) >= 3
  /\ Len(pushed) - Len(toProcess) > Len(batch)
  /\ \E i, j \in DOMAIN linksMap :
       /\ i # j
       /\ linksMap[i].target = linksMap[j].target
       /\ linksMap[i].target \in SeqToSet(pushed)

(***************************************************************************)
(* useSocialGraph.  sg holds the options and the locals of one call of its *)
(* query function; sg.pc names the query the call awaits ("contacts",      *)
(* "level", "profiles") or its end ("done", "failed").  sg.asked and       *)
(* sg.answers are history: the authors of every kind 3 query and the       *)
(* events returned to it.  Maps and Sets are sequences in insertion order. *)
(***************************************************************************)
SgDepth == 3        \* largest depth option tried
SgLimit == 3        \* largest limit option tried
SgResp == 2         \* length of a partial / repeating relay answer

\* A kind 0 event; content is the parsed JSON text, valid = FALSE for a
\* text that JSON.parse rejects or that holds no object.
ProfileEvent(pk, ts, content) ==
  [kind |-> 0, pubkey |-> pk, created_at |-> ts, content |-> content]
Metadata(valid, name, display_name, picture) ==
  [valid |-> valid, name |-> name, display_name |-> display_name, picture |-> picture]

IsKind(e, k) == IF "kind" \in DOMAIN e THEN e.kind = k ELSE k = 3

\* .filter(Boolean)
Truthy(v) == v # Undef /\ v # ""

\* event.tags.filter(tag => tag[0] === 'p').map(tag => tag[1]).filter(Boolean)
parseContactList(event) ==
  SelectSeq(TagValues(SelectSeq(event.tags, IsPTag)), Truthy)

\* Set.add
SetAdd(set, x) == IF x \in SeqToSet(set) THEN set ELSE Append(set, x)

\* xs.forEach(pk => set.add(pk))
RECURSIVE SetAddAll(_, _)
SetAddAll(set, xs) ==
  IF xs = <<>> THEN set ELSE SetAddAll(SetAdd(set, Head(xs)), Tail(xs))

\* Map.set: the value of a key that is present is replaced in its place.
MapHas(map, key) == \E i \in DOMAIN map : map[i].key = key
MapSet(map, key, value) ==
  IF MapHas(map, key)
    THEN [i \in DOMAIN map |->
            IF map[i].key = key THEN [key |-> key, value |-> value] ELSE map[i]]
    ELSE Append(map, [key |-> key, value |-> value])
MapGet(map, key) == map[CHOOSE i \in DOMAIN map : map[i].key = key]

\* for (const event of contactEvents) { ... }: st = [followMap, allPubkeys].
RECURSIVE IndexContacts(_, _)
IndexContacts(st, events) ==
  IF events = <<>>
    THEN st
    ELSE LET event == Head(events)
             followed == parseContactList(event)
         IN  IndexContacts(
               [followMap |-> MapSet(st.followMap, event.pubkey, followed),
                allPubkeys |-> SetAddAll(SetAdd(st.allPubkeys, event.pubkey), followed)],
               Tail(events))

\* for (const pk of followed) { if (!visited.has(pk) && allPubkeys.size < limit) ... }
RECURSIVE VisitFollowed(_, _, _)
VisitFollowed(st, followed, lim) ==
  IF followed = <<>>
    THEN st
    ELSE LET pk == Head(followed)
         IN  IF pk \notin st.visited /\ Len(st.allPubkeys) < lim
               THEN VisitFollowed([st EXCEPT !.visited = @ \cup {pk},
                                             !.nextLevel = Append(@, pk),
                                             !.allPubkeys = SetAdd(@, pk)],
                                  Tail(followed), lim)
               ELSE VisitFollowed(st, Tail(followed), lim)

\* for (const event of levelEvents) { ... }:
\* st = [followMap, allPubkeys, visited, nextLevel].
RECURSIVE VisitLevel(_, _, _)
VisitLevel(st, events, lim) ==
  IF events = <<>>
    THEN st
    ELSE LET event == Head(events)
             followed == parseContactList(event)
         IN  VisitLevel(
               VisitFollowed([st EXCEPT !.followMap = MapSet(@, event.pubkey, followed)],
                             followed, lim),
               Tail(events), lim)

\* for (const event of profileEvents) { if (!existing || event.created_at >
\* existing.created_at) latestProfileEvents.set(event.pubkey, event) }
RECURSIVE LatestProfileEvents(_, _)
LatestProfileEvents(map, events) ==
  IF events = <<>>
    THEN map
    ELSE LET event == Head(events)
         IN  IF ~MapHas(map, event.pubkey)
                  \/ event.created_at > MapGet(map, event.pubkey).value.created_at
               THEN LatestProfileEvents(MapSet(map, event.pubkey, event), Tail(events))
               ELSE LatestProfileEvents(map, Tail(events))

\* { pubkey, name, picture, display_name } of a content that parses, and
\* { pubkey } of one that throws.
ProfileOf(pubkey, content) ==
  IF content.valid
    THEN [pubkey |-> pubkey, name |-> content.name, picture |-> content.picture,
          display_name |-> content.display_name]
    ELSE [pubkey |-> pubkey, name |-> Undef, picture |-> Undef, display_name |-> Undef]

NoProfile(pubkey) ==
  [pubkey |-> pubkey, name |-> Undef, picture |-> Undef, display_name |-> Undef]

\* for (const pubkey of pubkeyArray) { if (!profileMap.has(pubkey)) ... }
RECURSIVE FillProfiles(_, _)
FillProfiles(map, pubkeys) ==
  IF pubkeys = <<>>
    THEN map
    ELSE FillProfiles(IF MapHas(map, Head(pubkeys))
                        THEN map
                        ELSE MapSet(map, Head(pubkeys), NoProfile(Head(pubkeys))),
                      Tail(pubkeys))

\* The profile Map built from the answer to the kind 0 query.
ProfileMap(events, pubkeyArray) ==
  LET latest == LatestProfileEvents(<<>>, events)
      parsed == [i \in DOMAIN latest |->
                   [key |-> latest[i].key,
                    value |-> ProfileOf(latest[i].key, latest[i].value.content)]]
  IN  FillProfiles(parsed, pubkeyArray)

\* x || y
OrElse(x, y) == IF Truthy(x) THEN x ELSE y

\* pubkey.slice(0, 8): the pubkeys of the model are shorter than 8 letters.
Slice8(pubkey) == pubkey

\* nodes.push({ id, label, avatar, radius, color, isRoot })
GraphNodeOf(pubkey, profile, root) ==
  [id |-> pubkey,
   label |-> OrElse(profile.display_name, OrElse(profile.name, Slice8(pubkey))),
   avatar |-> profile.picture,
   radius |-> IF pubkey = root THEN 20 ELSE 12,
   color |-> IF pubkey = root THEN "#8b5cf6" ELSE "#3b82f6",
   isRoot |-> pubkey = root]

\* for (const target of targets) { if (pubkeyArray.includes(target)) ... }
TargetLinks(source, targets, pubkeyArray) ==
  LET kept == SelectSeq(targets, LAMBDA t : t \in SeqToSet(pubkeyArray))
  IN  [i \in DOMAIN kept |-> [source |-> source, target |-> kept[i]]]

\* for (const [source, targets] of followMap) { ... }
RECURSIVE FollowLinks(_, _)
FollowLinks(followMap, pubkeyArray) ==
  IF followMap = <<>>
    THEN <<>>
    ELSE (IF Head(followMap).key \in SeqToSet(pubkeyArray)
            THEN TargetLinks(Head(followMap).key, Head(followMap).value, pubkeyArray)
            ELSE <<>>)
           \o FollowLinks(Tail(followMap), pubkeyArray)

\* The value the query function returns.
SocialGraph(call, profileEvents) ==
  LET profileMap == ProfileMap(profileEvents, call.pubkeyArray)
  IN  [nodes |-> [i \in DOMAIN call.pubkeyArray |->
                    GraphNodeOf(call.pubkeyArray[i],
                                MapGet(profileMap, call.pubkeyArray[i]).value,
                                call.rootPubkey)],
       links |-> FollowLinks(call.followMap, call.pubkeyArray),
       profiles |-> profileMap]

\* return { nodes: [], links: [], profiles: new Map() }
EmptyGraph == [nodes |-> <<>>, links |-> <<>>, profiles |-> <<>>]

\* Fault variant of SliceTo: the array is not cut.
SliceNone(seq, lim) == seq

\* Array.from(allPubkeys).slice(0, limit)
SliceTo(seq, lim) == SubSeq(seq, 1, Min(lim, Len(seq)))

\* The head of `for (let level = 1; level < depth && currentLevel.length > 0;
\* level++)`: the call awaits the query of the level, or that of the profiles.
Proceed(call) ==
  IF Truthy(call.rootPubkey) /\ call.depth > 1
       /\ call.level < call.depth /\ call.currentLevel # <<>>
    THEN [call EXCEPT !.pc = "level", !.asked = Append(@, call.currentLevel)]
    ELSE [call EXCEPT !.pc = "profiles",
                      !.pubkeyArray = SliceTo(call.allPubkeys, call.limit)]

\* The variables of useWebOfTrust, which a call of useSocialGraph leaves alone.
wot == <<startPubkey, depth, limit, referenceUser, nodesMap, linksMap, processed,
         toProcess, batch, currentLevel, pc, graphData, fetched, pushed, other>>

\* The kind 3 events of the given authors, and the kind 0 events.
Kind3(authors) == {e \in relay : IsKind(e, 3) /\ e.pubkey \in authors}
Kind0(authors) == {e \in relay : IsKind(e, 0) /\ e.pubkey \in authors}
AllKind3 == {e \in relay : IsKind(e, 3)}

\* One kind 3 event of every requested author that has published.
EachOf(authors) ==
  LET published == SelectSeq(authors, LAMBDA pk : Kind3({pk}) # {})
  IN  [i \in DOMAIN published |-> CHOOSE e \in Kind3({published[i]}) : TRUE]

\* The answers to [{ kinds: [3], authors: [rootPubkey], limit: 1 }] or to
\* [{ kinds: [3], limit }], to [{ kinds: [3], authors: currentLevel }] and to
\* [{ kinds: [0], authors: pubkeyArray }].
ContactAnswers ==
  IF Truthy(sg.rootPubkey)
    THEN BSeq(Kind3({sg.rootPubkey}), SgResp)
    ELSE BSeq(AllKind3, Min(SgResp, sg.limit))
LevelAnswers == BSeq(Kind3(SeqToSet(sg.currentLevel)), SgResp) \cup {EachOf(sg.currentLevel)}
ProfileAnswers == BSeq(Kind0(SeqToSet(sg.pubkeyArray)), SgResp)

\* The call up to its first query.
SocialCall(root, d, lim) ==
  [pc |-> "contacts", rootPubkey |-> root, depth |-> d, limit |-> lim,
   followMap |-> <<>>, allPubkeys |-> <<>>, visited |-> {}, currentLevel |-> <<>>,
   level |-> 0, pubkeyArray |-> <<>>,
   asked |-> <<IF Truthy(root) THEN <<root>> ELSE <<>>>>, answers |-> <<>>,
   result |-> <<>>]

\* Fault variant of FirstLevel: the traversal starts at the identities the
\* root follows.
FirstLevelFollowed(root, st) ==
  IF MapHas(st.followMap, root) THEN MapGet(st.followMap, root).value ELSE <<>>

\* let currentLevel = [rootPubkey]
FirstLevel(root, st) == <<root>>

\* The contact query returns: no event ends the call with the empty graph;
\* otherwise the events are indexed and the traversal starts at the root.
ContactsReturn ==
  /\ sg.pc = "contacts"
  /\ \E contactEvents \in ContactAnswers :
       IF contactEvents = <<>>
         THEN sg' = [sg EXCEPT !.pc = "done", !.result = <<EmptyGraph>>,
                               !.answers = Append(@, contactEvents)]
         ELSE LET st == IndexContacts([followMap |-> <<>>, allPubkeys |-> <<>>],
                                      contactEvents)
                  traversing == Truthy(sg.rootPubkey) /\ sg.depth > 1
              IN  sg' = Proceed([sg EXCEPT
                                   !.followMap = st.followMap,
                                   !.allPubkeys = st.allPubkeys,
                                   !.visited = IF traversing THEN {sg.rootPubkey} ELSE {},
                                   !.currentLevel = IF traversing
                                                      THEN FirstLevel(sg.rootPubkey, st)
                                                      ELSE <<>>,
                                   !.level = 1,
                                   !.answers = Append(@, contactEvents)])
  /\ UNCHANGED <<relay, wot>>

\* The query of a level returns: one pass through the body of the for loop.
LevelReturn ==
  /\ sg.pc = "level"
  /\ \E levelEvents \in LevelAnswers :
       LET st == VisitLevel([followMap |-> sg.followMap, allPubkeys |-> sg.allPubkeys,
                             visited |-> sg.visited, nextLevel |-> <<>>],
                            levelEvents, sg.limit)
       IN  sg' = Proceed([sg EXCEPT
                            !.followMap = st.followMap,
                            !.allPubkeys = st.allPubkeys,
                            !.visited = st.visited,
                            !.currentLevel = st.nextLevel,
                            !.level = @ + 1,
                            !.answers = Append(@, levelEvents)])
  /\ UNCHANGED <<relay, wot>>

\* The profile query returns: the graph is built and returned.
ProfilesReturn ==
  /\ sg.pc = "profiles"
  /\ \E profileEvents \in ProfileAnswers :
       sg' = [sg EXCEPT !.pc = "done", !.result = <<SocialGraph(sg, profileEvents)>>]
  /\ UNCHANGED <<relay, wot>>

\* A query rejects (relay error, abort, timeout): the query function throws.
QueryFail ==
  /\ sg.pc \in {"contacts", "level", "profiles"}
  /\ sg' = [sg EXCEPT !.pc = "failed"]
  /\ UNCHANGED <<relay, wot>>

\* The contact lists tried: one tag at most, or two "p" tags.
SgTagLists ==
  {t \in TagLists : Len(t) <= 1} \cup {<<PTag("b"), PTag("c")>>, <<PTag("b"), PTag("b")>>}

\* The kind 0 events of the relay: two of "a", one of "b" that does not parse.
SgProfiles ==
  {ProfileEvent("a", 1, Metadata(TRUE, "Al", Undef, "pic")),
   ProfileEvent("a", 2, Metadata(TRUE, "Al", "Alice", Undef)),
   ProfileEvent("b", 1, Metadata(FALSE, Undef, Undef, Undef))}

\* Worlds in which "a" and "b" have published one contact list at most.
SgWorlds ==
  {w \cup SgProfiles :
     w \in UNION {{{Event(id, 1, f[id]) : id \in A} : f \in [A -> SgTagLists]} :
                    A \in SUBSET {"a", "b"}}}

\* No call of useWebOfTrust is made.
SocialInit ==
  /\ relay \in SgWorlds
  /\ sg \in {SocialCall(root, d, lim) :
               root \in {"a", Undef}, d \in 1..SgDepth, lim \in 1..SgLimit}
  /\ startPubkey = Undef /\ depth = 0 /\ limit = 0 /\ referenceUser = Undef
  /\ nodesMap = <<>> /\ linksMap = <<>> /\ processed = {} /\ toProcess = <<>>
  /\ batch = <<>> /\ currentLevel = 0 /\ pc = "none" /\ graphData = <<>>
  /\ fetched = {} /\ pushed = <<>> /\ other = NoRun

SocialNext == ContactsReturn \/ LevelReturn \/ ProfilesReturn \/ QueryFail

SocialSpec == SocialInit /\ [][SocialNext]_vars

SgReturned == sg.pc = "done"
SgResult == sg.result[1]

\* C26: useSocialGraph, in root and in global mode, for every depth and all
\* answers of the relay: the returned node list holds at most `limit` nodes,
\* and the source and the target of every returned link are ids of returned
\* nodes.
NodeLimit ==
  SgReturned =>
    /\ Len(SgResult.nodes) <= sg.limit
    /\ \A l \in DOMAIN SgResult.links :
         /\ SgResult.links[l].source \in NodeIds(SgResult.nodes)
         /\ SgResult.links[l].target \in NodeIds(SgResult.nodes)

\* A call that has collected more identities than `limit`, and returns
\* `limit` nodes, a link between them, and no link for a follow whose target
\* was cut off.
NodeLimitWitness ==
  /\ SgReturned
  /\ Len(sg.allPubkeys) > sg.limit
  /\ Len(SgResult.nodes) = sg.limit
  /\ SgResult.links # <<>>
  /\ \E i \in DOMAIN sg.followMap :
       /\ sg.followMap[i].key \in NodeIds(SgResult.nodes)
       /\ \E t \in SeqToSet(sg.followMap[i].value) : t \notin NodeIds(SgResult.nodes)

\* Every kind 3 query of the call has returned the one record r.
AlwaysReturned(r) == \A i \in DOMAIN sg.answers : sg.answers[i] = <<r>>

\* The identities and the follows of a graph made of the record r alone:
\* its author and the identities it lists, up to lim of them.
RecordIds(r, lim) == SeqToSet(SliceTo(SetAddAll(<<r.pubkey>>, parseContactList(r)), lim))
RecordLinks(r, lim) ==
  {[source |-> r.pubkey, target |-> t] :
     t \in SeqToSet(parseContactList(r)) \cap RecordIds(r, lim)}

\* C30: a rooted call of useSocialGraph whose queries all return the same
\* single contact record of the root returns, with depth 1 and with depth 2,
\* the nodes and the links of that record alone (the first round of the
\* traversal asks for the root again); the contact lists of the identities
\* the root follows are asked for with depth 3 or more only.
SameGraphToDepthTwo ==
  Truthy(sg.rootPubkey) =>
    /\ (SgReturned /\ sg.depth \in {1, 2})
         => \A r \in Kind3({sg.rootPubkey}) :
              AlwaysReturned(r) =>
                /\ NodeIds(SgResult.nodes) = RecordIds(r, sg.limit)
                /\ SeqToSet(SgResult.links) = RecordLinks(r, sg.limit)
    /\ sg.depth < 3 => \A i \in DOMAIN sg.asked : sg.asked[i] = <<sg.rootPubkey>>

\* A call with depth 2 that has returned after two queries for the root,
\* both answered with the one record, which lists another identity.
SameGraphToDepthTwoWitness ==
  /\ SgReturned
  /\ sg.depth = 2
  /\ Len(sg.answers) = 2
  /\ Len(sg.asked) = 2
  /\ \E r \in Kind3({sg.rootPubkey}) :
       /\ AlwaysReturned(r)
       /\ \E t \in SeqToSet(parseContactList(r)) : t # sg.rootPubkey
  /\ SgResult.links # <<>>

====
